---- MODULE Spec2Model ----
(***************************************************************************)
(* Model of scripts/check_copyright_notice.py: main() walks the list of    *)
(* file names, calls check_file() on each and ORs the results together.    *)
(* check_file() asks the file system for the size, python-magic for the    *)
(* MIME type and comment_parser for the comments, then looks for the two   *)
(* notices in the joined comment text.                                     *)
(*                                                                         *)
(* Strings are sequences of one-character strings.  The two notices are    *)
(* abbreviated to two-character words over the alphabet Char, and comment  *)
(* texts are the strings up to that length, so that the substring search   *)
(* and the newline join are computed, not assumed: a notice can be whole   *)
(* in one comment, cut in two by the newline of the join, or absent.       *)
(* The three collaborators (os.path.getsize, magic.from_file,              *)
(* comment_parser.extract_comments) are the environment: each call picks   *)
(* one of the outcomes the call can have, an exception included.           *)
(***************************************************************************)
EXTENDS Integers, Sequences, FiniteSets, TLC

\* ------------------------------------------------------------- bounds ----
MaxFiles == 2
MaxComments == 2

\* ---------------------------------------------------------- constants ----
COPYRIGHT_TEXT == <<"C", "x">>
LICENSE_TEXT == <<"L", "x">>

NL == "\n"

Names == {"main.go", "build.sh"}
Char == {"C", "L", "x"}

TEXT_PLAIN == "text/plain"
TEXT_CPP == "text/x-c++"

TEXT_C == "text/x-c"
OCTET_STREAM == "application/octet-stream"

\* Types magic.from_file reports: the generic one, one with a comment
\* grammar, one without.
MimeTypes == {TEXT_PLAIN, TEXT_C, OCTET_STREAM}

\* Types comment_parser has a grammar for; text/plain is not one of them.
Supported == {TEXT_CPP, TEXT_C}

\* os.path.getsize results: an empty file and a non-empty one.
Sizes == {0, 1}

\* Values of locals that are not bound (yet).
NONE == "none"
NOSIZE == 0 - 1
NORV == 0 - 1

\* ------------------------------------------------------------ helpers ----
SeqsUpTo(S, n) == UNION {[1..k -> S] : k \in 0..n}

\* Comment texts: every string no longer than a notice.
Strings == SeqsUpTo(Char, Len(COPYRIGHT_TEXT))

CommentLists == SeqsUpTo(Strings, MaxComments)

\* args.filenames.  The program never looks into a name, so the first file
\* is always the same one; later ones may repeat it or not.
FirstName == "main.go"
FileLists == {l \in SeqsUpTo(Names, MaxFiles) : l = <<>> \/ l[1] = FirstName}

\* "\n".join(texts)
RECURSIVE Join(_)
Join(texts) ==
    IF texts = <<>> THEN <<>>
    ELSE IF Len(texts) = 1 THEN texts[1]
    ELSE texts[1] \o <<NL>> \o Join(Tail(texts))

\* text in s
Contains(text, s) ==
    \E i \in 0..(Len(s) - Len(text)) : SubSeq(s, i + 1, i + Len(text)) = text

\* a | b on non-negative ints
RECURSIVE BitOr(_, _)
BitOr(a, b) ==
    IF a = 0 THEN b
    ELSE IF b = 0 THEN a
    ELSE (IF (a % 2 = 1) \/ (b % 2 = 1) THEN 1 ELSE 0) + 2 * BitOr(a \div 2, b \div 2)

\* variant: the detected type is used as it is
Remap_Identity(m) == m

\* if mime_type == "text/plain": mime_type = "text/x-c++"
Remap(m) == IF m = TEXT_PLAIN THEN TEXT_CPP ELSE m

\* variant: ret = v (the result of the last file overwrites the earlier ones)
Accumulated_Overwrite(r, v) == v

\* ret |= v
Accumulated(r, v) == BitOr(r, v)

\* variant: the size test never succeeds
IsEmpty_Never(s) == s < 0

\* if os.path.getsize(filename) == 0
IsEmpty(s) == s = 0

\* variant: if copyright_found or license_found: return 0
BothFound_Either(cf, lf) == cf \/ lf

\* if copyright_found and license_found: return 0
BothFound(cf, lf) == cf /\ lf

\* ------------------------------------------------------ printed lines ----
Line(t, a) == [text |-> t, arg |-> a]

BannerLine == Line("Checking copyright headers...", "")
MimeErrorLine(f) == Line("# Error reading MIME type of", f)
ParseErrorLine(f) == Line("# Failed to parse comments in", f)
HeaderLine(f) == Line("# Copyright check error(s) in:", f)
MissingCopyrightLine == Line("# Missing or invalid copyright. Expected:", "COPYRIGHT_TEXT")
MissingLicenseLine == Line("# Missing or invalid license. Expected:", "LICENSE_TEXT")
SummaryLine == Line(">> error: One or more files are missing a valid copyright or license header", "")

\* variant: a MIME failure is reported under the missing-notice header
MimeErrorOutput_AsHeader(f) == <<HeaderLine(f)>>

\* except Exception as e: print(f"# Error reading MIME type of {filename}: {e}")
MimeErrorOutput(f) == <<MimeErrorLine(f)>>

\* variant: an extraction failure returns 1 without a word
ParseErrorOutput_Silent(f) == <<>>

\* except Exception as e: print(f"# Failed to parse comments in {filename}: {e}")
ParseErrorOutput(f) == <<ParseErrorLine(f)>>

\* variant: the second test repeats the first (if not copyright_found, twice)
MissingOutput_SameTest(f, cf, lf) ==
    <<HeaderLine(f)>>
        \o (IF ~cf THEN <<MissingCopyrightLine>> ELSE <<>>)
        \o (IF ~cf THEN <<MissingLicenseLine>> ELSE <<>>)

\* print(header); if not copyright_found: print(...); if not license_found: print(...)
MissingOutput(f, cf, lf) ==
    <<HeaderLine(f)>>
        \o (IF ~cf THEN <<MissingCopyrightLine>> ELSE <<>>)
        \o (IF ~lf THEN <<MissingLicenseLine>> ELSE <<>>)

\* variant: the summary line is printed whatever ret is
SummaryOutput_Always(r) == <<SummaryLine>>

\* if ret != 0: print(">> error: ...")
SummaryOutput(r) == IF r # 0 THEN <<SummaryLine>> ELSE <<>>

\* -------------------------------------------------------------- state ----
VARIABLES
    pc,               \* position in main / check_file
    filenames,        \* args.filenames
    idx,              \* number of loop iterations started
    ret,              \* main's accumulator
    out,              \* lines printed to standard output, in order
    invoked,          \* file names check_file was called with, in order
    results,          \* values check_file returned, in order
    mark,             \* Len(out) when the current check_file call began
    size,             \* os.path.getsize result of the current call
    detected,         \* what magic.from_file returned in the current call
    mime_type,        \* check_file's local
    passed,           \* mime= argument given to extract_comments
    extracted,        \* comment texts extract_comments produced
    comments,         \* check_file's local: the joined text
    copyright_found,
    license_found,
    error,            \* exception raised in the current call
    rv                \* value the current check_file call returns

vars == <<pc, filenames, idx, ret, out, invoked, results, mark, size, detected,
          mime_type, passed, extracted, comments, copyright_found,
          license_found, error, rv>>

locals == <<size, detected, mime_type, passed, extracted, comments,
            copyright_found, license_found, error>>

filename == filenames[idx]

Init ==
    /\ pc = "banner"
    /\ filenames \in FileLists
    /\ idx = 0
    /\ ret = 0
    /\ out = <<>>
    /\ invoked = <<>>
    /\ results = <<>>
    /\ mark = 0
    /\ size = NOSIZE
    /\ detected = NONE
    /\ mime_type = NONE
    /\ passed = NONE
    /\ extracted = <<>>
    /\ comments = <<>>
    /\ copyright_found = FALSE
    /\ license_found = FALSE
    /\ error = NONE
    /\ rv = NORV

\* ---------------------------------------------------------------- main ----
\* print("Checking copyright headers..."); ret = 0
Banner ==
    /\ pc = "banner"
    /\ out' = Append(out, BannerLine)
    /\ ret' = 0
    /\ pc' = "loop"
    /\ UNCHANGED <<filenames, idx, invoked, results, mark, rv>>
    /\ UNCHANGED locals

\* for filename in args.filenames: ... check_file(filename)
LoopCall ==
    /\ pc = "loop"
    /\ idx < Len(filenames)
    /\ idx' = idx + 1
    /\ invoked' = Append(invoked, filenames[idx + 1])
    /\ mark' = Len(out)
    /\ pc' = "getsize"
    /\ UNCHANGED <<filenames, ret, out, results, rv>>
    /\ UNCHANGED locals

LoopExit ==
    /\ pc = "loop"
    /\ idx = Len(filenames)
    /\ pc' = "summary"
    /\ UNCHANGED <<filenames, idx, ret, out, invoked, results, mark, rv>>
    /\ UNCHANGED locals

\* ret |= <returned value>; the callee's frame is gone
Accumulate ==
    /\ pc = "ior"
    /\ ret' = Accumulated(ret, rv)
    /\ results' = Append(results, rv)
    /\ rv' = NORV
    /\ size' = NOSIZE
    /\ detected' = NONE
    /\ mime_type' = NONE
    /\ passed' = NONE
    /\ extracted' = <<>>
    /\ comments' = <<>>
    /\ copyright_found' = FALSE
    /\ license_found' = FALSE
    /\ error' = NONE
    /\ pc' = "loop"
    /\ UNCHANGED <<filenames, idx, out, invoked, mark>>

\* if ret != 0: print(">> error: ..."); return ret
Summary ==
    /\ pc = "summary"
    /\ out' = out \o SummaryOutput(ret)
    /\ pc' = "done"
    /\ UNCHANGED <<filenames, idx, ret, invoked, results, mark, rv>>
    /\ UNCHANGED locals

\* ---------------------------------------------------------- check_file ----
\* os.path.getsize(filename) raises OSError (no such file, dangling link,
\* no permission on the directory): it is outside every try block, so the
\* exception leaves check_file and main
GetSizeRaises ==
    /\ pc = "getsize"
    /\ error' = "OSError"
    /\ pc' = "raised"
    /\ UNCHANGED <<filenames, idx, ret, out, invoked, results, mark, rv>>
    /\ UNCHANGED <<size, detected, mime_type, passed, extracted, comments,
                   copyright_found, license_found>>

\* if os.path.getsize(filename) == 0: return 0
GetSize ==
    /\ pc = "getsize"
    /\ \E s \in Sizes :
        /\ size' = s
        /\ IF IsEmpty(s)
           THEN rv' = 0 /\ pc' = "ior"
           ELSE rv' = rv /\ pc' = "magic"
    /\ UNCHANGED <<filenames, idx, ret, out, invoked, results, mark>>
    /\ UNCHANGED <<detected, mime_type, passed, extracted, comments,
                   copyright_found, license_found, error>>

\* mime_type = magic.from_file(filename, mime=True)
MagicFromFile ==
    /\ pc = "magic"
    /\ \E m \in MimeTypes :
        /\ detected' = m
        /\ mime_type' = m
    /\ pc' = "remap"
    /\ UNCHANGED <<filenames, idx, ret, out, invoked, results, mark, rv>>
    /\ UNCHANGED <<size, passed, extracted, comments, copyright_found,
                   license_found, error>>

\* except Exception as e: print(...); return 1
MagicRaises ==
    /\ pc = "magic"
    /\ detected' = "raised"
    /\ error' = "MimeError"
    /\ out' = out \o MimeErrorOutput(filename)
    /\ rv' = 1
    /\ pc' = "ior"
    /\ UNCHANGED <<filenames, idx, ret, invoked, results, mark>>
    /\ UNCHANGED <<size, mime_type, passed, extracted, comments,
                   copyright_found, license_found>>

\* if mime_type == "text/plain": mime_type = "text/x-c++"
RemapStep ==
    /\ pc = "remap"
    /\ mime_type' = Remap(mime_type)
    /\ pc' = "extract"
    /\ UNCHANGED <<filenames, idx, ret, out, invoked, results, mark, rv>>
    /\ UNCHANGED <<size, detected, passed, extracted, comments,
                   copyright_found, license_found, error>>

\* comments = "\n".join(c.text() for c in extract_comments(filename, mime=mime_type))
\* copyright_found = COPYRIGHT_TEXT in comments
\* license_found = LICENSE_TEXT in comments
\* if copyright_found and license_found: return 0
\* print(header); print the line of each missing notice; return 1
ExtractComments ==
    /\ pc = "extract"
    /\ mime_type \in Supported
    /\ passed' = mime_type
    /\ \E texts \in CommentLists :
        /\ extracted' = texts
        /\ comments' = Join(texts)
    /\ copyright_found' = Contains(COPYRIGHT_TEXT, comments')
    /\ license_found' = Contains(LICENSE_TEXT, comments')
    /\ IF BothFound(copyright_found', license_found')
       THEN /\ out' = out
            /\ rv' = 0
       ELSE /\ out' = out \o MissingOutput(filename, copyright_found', license_found')
            /\ rv' = 1
    /\ pc' = "ior"
    /\ UNCHANGED <<filenames, idx, ret, invoked, results, mark>>
    /\ UNCHANGED <<size, detected, mime_type, error>>

\* except Exception as e: print(...); return 1
\* (no grammar for the type, or the grammar rejects the file)
ExtractRaises ==
    /\ pc = "extract"
    /\ passed' = mime_type
    /\ error' = "ParseError"
    /\ out' = out \o ParseErrorOutput(filename)
    /\ rv' = 1
    /\ pc' = "ior"
    /\ UNCHANGED <<filenames, idx, ret, invoked, results, mark>>
    /\ UNCHANGED <<size, detected, mime_type, extracted, comments,
                   copyright_found, license_found>>

Next ==
    \/ Banner
    \/ LoopCall
    \/ LoopExit
    \/ Accumulate
    \/ Summary
    \/ GetSizeRaises
    \/ GetSize
    \/ MagicFromFile
    \/ MagicRaises
    \/ RemapStep
    \/ ExtractComments
    \/ ExtractRaises

Spec == Init /\ [][Next]_vars

\* ------------------------------------------------- vocabulary of claims ----
\* check_file has returned and main has not yet consumed the value
Returned == pc = "ior"

\* main has ended, by return or by an exception
Terminated == pc \in {"done", "raised"}

\* lines the current check_file call has printed
CallLines == SubSeq(out, mark + 1, Len(out))

\* line is printed exactly once, as line number n
OnlyAt(line, n) ==
    /\ n \in 1..Len(out)
    /\ \A i \in 1..Len(out) : (out[i] = line) <=> (i = n)

Printed(line) == \E i \in 1..Len(out) : out[i] = line

SomeFailed == \E i \in 1..Len(results) : results[i] = 1

\* the texts joined by newlines, in order (built left to right)
RECURSIVE JoinedUpTo(_, _)
JoinedUpTo(texts, k) ==
    IF k = 0 THEN <<>>
    ELSE IF k = 1 THEN texts[1]
    ELSE JoinedUpTo(texts, k - 1) \o <<NL>> \o texts[k]

JoinedByNewlines(texts) == JoinedUpTo(texts, Len(texts))

\* text is a substring of s: at some offset, s agrees with text throughout
Occurs(text, s) ==
    \E n \in 0..Len(s) :
        /\ n + Len(text) <= Len(s)
        /\ \A k \in 1..Len(text) : s[n + k] = text[k]

HasCopyright == Occurs(COPYRIGHT_TEXT, JoinedByNewlines(extracted))
HasLicense == Occurs(LICENSE_TEXT, JoinedByNewlines(extracted))

\* the size query, MIME detection and comment extraction all succeeded
Checked == Returned /\ size > 0 /\ detected \in MimeTypes /\ error = NONE

\* ret against the values returned so far, and against all of them at return
AccumulatorState ==
    /\ ret \in {0, 1}
    /\ (ret = 1) <=> SomeFailed
    /\ \A i \in 1..Len(results) : results[i] \in {0, 1}
    /\ pc = "done" =>
        /\ Len(results) = Len(filenames)
        /\ ret = IF SomeFailed THEN 1 ELSE 0

NoticeLines(f) == {HeaderLine(f), MissingCopyrightLine, MissingLicenseLine}

\* ---------------------------------------------------------------- claims ----
\* C1: the accumulated code is always 0 or 1 and is 1 exactly when a file
\* already processed failed; it never goes back from 1 to 0; and when main
\* returns, every file has a result and the value returned is 1 if some
\* check returned 1 and 0 if all returned 0 (0 for the empty list).
C1_Accumulated == [](AccumulatorState) /\ [][ret = 1 => ret' = 1]_vars

C1_Witness ==
    /\ pc = "done"
    /\ results = <<1, 0>>
    /\ ret = 1

\* C2: every error while checking a file (size query, MIME detection,
\* comment extraction) is caught, reported with a printed diagnostic and
\* turned into a return value of 1; none leaves check_file or main.
C2_AllErrorsRecovered ==
    /\ pc # "raised"
    /\ error # NONE => (Returned /\ rv = 1 /\ Len(CallLines) = 1)

\* C3: main calls check_file on every file exactly once, in input order,
\* whatever happened with the earlier files: when main has ended, the calls
\* made are the input list.
C3_EveryFileChecked == Terminated => invoked = filenames

C5_ReturnIffBothPresent ==
    Checked =>
        /\ rv \in {0, 1}
        /\ (rv = 0) <=> (HasCopyright /\ HasLicense)
        /\ (rv = 0) => CallLines = <<>>

C5_Witness ==
    /\ Checked
    /\ rv = 0
    /\ extracted = <<LICENSE_TEXT, COPYRIGHT_TEXT>>

\* C6: a check that fails for a missing notice prints the header of the
\* file, then the copyright line iff the copyright notice is absent, then
\* the license line iff the license notice is absent, and nothing else.
C6_OneLinePerMissingItem ==
    (Checked /\ rv = 1) =>
        CallLines = <<HeaderLine(filename)>>
                        \o (IF HasCopyright THEN <<>> ELSE <<MissingCopyrightLine>>)
                        \o (IF HasLicense THEN <<>> ELSE <<MissingLicenseLine>>)

C6_Witness ==
    /\ Checked
    /\ rv = 1
    /\ ~HasCopyright
    /\ ~HasLicense
    /\ Len(CallLines) = 3

\* C7: when MIME detection raises on a non-empty file, check_file prints
\* the MIME-error line and nothing else (no header, no missing-notice
\* line), returns 1 and never calls the comment extractor.
C7_MimeError ==
    (detected = "raised") =>
        /\ Returned
        /\ size > 0
        /\ rv = 1
        /\ CallLines = <<MimeErrorLine(filename)>>
        /\ \A i \in 1..Len(CallLines) : CallLines[i] \notin NoticeLines(filename)
        /\ passed = NONE
        /\ extracted = <<>>

C7_Witness ==
    /\ Returned
    /\ detected = "raised"
    /\ rv = 1
    /\ results = <<0>>

\* C8: the type given to the comment extractor is text/x-c++ when the
\* detected type is text/plain and the detected type itself otherwise; so
\* a text/plain file whose comments (read with the C++ grammar) hold both
\* notices passes.
C8_RemapPlainText ==
    /\ passed # NONE =>
        /\ detected = TEXT_PLAIN => passed = TEXT_CPP
        /\ detected # TEXT_PLAIN => passed = detected
    /\ (Checked /\ detected = TEXT_PLAIN /\ HasCopyright /\ HasLicense) =>
        /\ passed = TEXT_CPP
        /\ rv = 0

C8_Witness ==
    /\ Checked
    /\ detected = TEXT_PLAIN
    /\ passed = TEXT_CPP
    /\ extracted = <<COPYRIGHT_TEXT, LICENSE_TEXT>>
    /\ rv = 0

\* C9: when MIME detection succeeds and comment extraction raises (a type
\* without a grammar included, text/plain excepted), check_file prints the
\* parse-failure line and nothing else and returns 1.
C9_ParseError ==
    /\ error = "ParseError" =>
        /\ Returned
        /\ detected \in MimeTypes
        /\ rv = 1
        /\ CallLines = <<ParseErrorLine(filename)>>
        /\ \A i \in 1..Len(CallLines) : CallLines[i] \notin NoticeLines(filename)
    /\ (Returned /\ detected \in MimeTypes \ (Supported \cup {TEXT_PLAIN})) =>
        error = "ParseError"

C9_Witness ==
    /\ Returned
    /\ error = "ParseError"
    /\ detected = OCTET_STREAM
    /\ rv = 1

\* C10: the banner is printed exactly once and is the first line; the
\* summary line is printed iff main returns failure, once and as the last
\* line, after every file has been checked; a run over no file or only
\* passing files prints the banner alone.
C10_BannerAndSummary ==
    /\ pc = "banner" => out = <<>>
    /\ pc # "banner" => OnlyAt(BannerLine, 1)
    /\ Printed(SummaryLine) <=> (pc = "done" /\ ret # 0)
    /\ Printed(SummaryLine) =>
        /\ OnlyAt(SummaryLine, Len(out))
        /\ Len(results) = Len(filenames)
    /\ (pc = "done" /\ ~SomeFailed) => out = <<BannerLine>>

C10_Witness ==
    /\ pc = "done"
    /\ ret = 1
    /\ Len(results) = 2
    /\ Len(out) >= 4
    /\ out[Len(out)] = SummaryLine

====
